---- MODULE Spec2Model ----
(***************************************************************************)
(* The customer product-list hook (useCustomerProductLists.js): the        *)
(* module-level eventQueue, the drain processEventQueue started by the     *)
(* useEffect on customerProductLists, and the store methods of `self`.     *)
(*                                                                         *)
(* Granularity: JavaScript runs to completion between awaits, so one       *)
(* action is one synchronous run: from a call or a resolved await up to    *)
(* the next await (or the return).  A request is answered in one step:     *)
(* the backend applies it and the awaiting code resumes with the answer.   *)
(* A method of `self` reads the customerProductLists of the render in      *)
(* which `self` was built (useMemo, line 77), so every invocation carries  *)
(* the snapshot it closed over in its field `snap`.                        *)
(***************************************************************************)
EXTENDS Integers, Sequences, FiniteSets, TLC

VARIABLES
    server,                \* the backend's product lists of the customer
    created,               \* number of items the backend has created
    customerProductLists,  \* the context state (line 20)
    isLoading,             \* useState(false) (line 21)
    eventQueue,            \* the module-level queue (line 10)
    effectPending,         \* a render with a new customerProductLists is
                           \* committed and its effect (line 71) has not run
    effectRaised,          \* the effect callback has thrown
    inflight,              \* invocations suspended at an await
    enqueued,              \* history: every event pushed, in push order
    dequeued,              \* history: eid of every event shifted, in order
    reqLog,                \* history: every request started, in order
    cbLog,                 \* history: every callback invoked, in order
    resLog,                \* history: every answer to a request of a queued
                           \* action, in order
    calls,                 \* number of direct calls made so far
    errored,               \* history: the direct calls a request of which
                           \* was answered with an error-shaped response
    raised                 \* history: the direct calls that threw to
                           \* their caller

vars == <<server, created, customerProductLists, isLoading, eventQueue,
          effectPending, effectRaised, inflight, enqueued, dequeued,
          reqLog, cbLog, resLog, calls, errored, raised>>

----------------------------------------------------------------------------
\* Bounds of the model.
MaxEvents == 2      \* events pushed on the queue in one behaviour
MaxCalls == 2       \* direct calls of getCustomerProductLists,
                    \* deleteCustomerProductListItem and clearProductLists
                    \* in one behaviour
MaxStoreCalls == 3  \* direct calls of all store methods in one behaviour

\* eventActions (lines 12-15)
ADD == "add"
REMOVE == "remove"
eventActions == {ADD, REMOVE}

\* customerProductListTypes.WISHLIST, as used at line 31
WISHLIST == "wish_list"
OTHERTYPE == "shopping_list"

\* Names the backend gives to the items and to the lists it creates.
NewItemNames == <<"n1", "n2", "n3", "n4", "n5", "n6", "n7", "n8">>
NewListNames == <<"m1", "m2", "m3", "m4", "m5", "m6", "m7", "m8">>

\* The absent / irrelevant value of a field.
None == "none"

----------------------------------------------------------------------------
\* The values of customerProductLists.  `undefined` is the context's value
\* before any fetch, `{}` is what clearProductLists sets (line 94), and a
\* response of the backend carries the list collection in `data`.
Undefined == [kind |-> "undefined", data |-> <<>>]
Cleared == [kind |-> "cleared", data |-> <<>>]
Response(lists) == [kind |-> "lists", data |-> lists]

\* The backend's lists at the start: a shopping list followed by a wishlist
\* that holds product p1 (quantity 3) and p2; a shopping list alone; no list.
ServerWithWishlist ==
    << [id |-> "l2", type |-> OTHERTYPE, customerProductListItems |->
            << [id |-> "i3", productId |-> "p1", quantity |-> 1] >>],
       [id |-> "l1", type |-> WISHLIST, customerProductListItems |->
            << [id |-> "i1", productId |-> "p1", quantity |-> 3],
               [id |-> "i2", productId |-> "p2", quantity |-> 1] >>] >>
ServerWithoutWishlist ==
    << [id |-> "l2", type |-> OTHERTYPE, customerProductListItems |->
            << [id |-> "i3", productId |-> "p1", quantity |-> 1] >>] >>
ServerEmpty == << >>
InitialServers == {ServerWithWishlist, ServerWithoutWishlist, ServerEmpty}

\* The events callers push: add of a product the wishlist holds (p1) or
\* does not hold (p3), remove of a wishlist item; each callback is optional.
AddProducts == {"p1", "p3"}
AddQuantities == {2}
RemoveItems == {"i1", "i2"}
RemoveLists == {"l1"}
EventShapes ==
    { [action |-> ADD, item |-> [id |-> p, quantity |-> n], listId |-> None,
       onSuccess |-> s, onError |-> e] :
         p \in AddProducts, n \in AddQuantities, s \in BOOLEAN, e \in BOOLEAN }
    \cup
    { [action |-> REMOVE, item |-> [id |-> i, quantity |-> 0], listId |-> l,
       onSuccess |-> s, onError |-> e] :
         i \in RemoveItems, l \in RemoveLists, s \in BOOLEAN, e \in BOOLEAN }

\* The event field of an invocation that is not a drain.
NoEvent == [eid |-> 0, action |-> None, item |-> [id |-> None, quantity |-> 0],
            listId |-> None, onSuccess |-> FALSE, onError |-> FALSE]

----------------------------------------------------------------------------
\* The backend (api.shopperCustomers), an external collaborator.

Request(op, listId, itemId, productId, quantity) ==
    [op |-> op, listId |-> listId, itemId |-> itemId, productId |-> productId,
     quantity |-> quantity]

HasList(lists, listId) == \E k \in DOMAIN lists : lists[k].id = listId
HasItem(lists, listId, itemId) ==
    \E k \in DOMAIN lists :
        /\ lists[k].id = listId
        /\ \E j \in DOMAIN lists[k].customerProductListItems :
               lists[k].customerProductListItems[j].id = itemId

\* A request can succeed only if what it names exists on the backend.
RequestValid(lists, req) ==
    CASE req.op = "getCustomerProductLists" -> TRUE
      [] req.op = "createCustomerProductList" -> TRUE
      [] req.op = "createCustomerProductListItem" -> HasList(lists, req.listId)
      [] OTHER -> HasItem(lists, req.listId, req.itemId)

\* `customerProductListItems.filter((x) => x.id !== item.id)` (lines 364-366)
FilterOutItem(items, itemId) == SelectSeq(items, LAMBDA x : x.id # itemId)

\* `data.map(list => list.id === listId ? {...list, customerProductListItems:
\* items.filter(...)} : list)` (lines 360-369)
FilterOutItemOfList(lists, listId, itemId) ==
    [k \in DOMAIN lists |->
        IF lists[k].id = listId
        THEN [lists[k] EXCEPT
                 !.customerProductListItems = FilterOutItem(@, itemId)]
        ELSE lists[k]]

\* The backend's lists after it has carried out a request.
ServerApply(lists, req, n) ==
    CASE req.op = "createCustomerProductListItem" ->
            [k \in DOMAIN lists |->
                IF lists[k].id = req.listId
                THEN [lists[k] EXCEPT !.customerProductListItems =
                         Append(@, [id |-> NewItemNames[n + 1],
                                    productId |-> req.productId,
                                    quantity |-> req.quantity])]
                ELSE lists[k]]
      [] req.op = "updateCustomerProductListItem" ->
            [k \in DOMAIN lists |->
                IF lists[k].id = req.listId
                THEN [lists[k] EXCEPT !.customerProductListItems =
                         [j \in DOMAIN @ |->
                             IF @[j].id = req.itemId
                             THEN [@[j] EXCEPT !.quantity = req.quantity]
                             ELSE @[j]]]
                ELSE lists[k]]
      [] req.op = "deleteCustomerProductListItem" ->
            FilterOutItemOfList(lists, req.listId, req.itemId)
      [] req.op = "createCustomerProductList" ->
            Append(lists, [id |-> NewListNames[Len(lists) + 1],
                           type |-> req.type,
                           customerProductListItems |-> << >>])
      [] OTHER -> lists

CreatedAfter(req, n) ==
    IF req.op = "createCustomerProductListItem" THEN n + 1 ELSE n

----------------------------------------------------------------------------
\* The hook.

\* `!!customerProductLists?.data?.length` (lines 84-86)
loaded(snap) == snap.kind = "lists" /\ Len(snap.data) > 0

\* The getter `showLoader` (lines 80-82)
showLoader(loading) == loading

\* The getter `loaded` (lines 84-86) as an evaluation, step by step:
\* `customerProductLists?.data` is undefined when customerProductLists is
\* undefined and when it is `{}`; `?.length` of undefined is undefined;
\* `!!` makes a boolean of it.  "raise" is a TypeError.
LoadedWithoutOptionalChain(snap) ==
    CASE snap.kind = "undefined" -> "false"
      [] snap.kind = "cleared" -> "raise"
      [] Len(snap.data) = 0 -> "false"
      [] OTHER -> "true"
LoadedGetter(snap) ==
    CASE snap.kind = "undefined" -> "false"
      [] snap.kind = "cleared" -> "false"
      [] Len(snap.data) = 0 -> "false"
      [] OTHER -> "true"

\* `eventQueue.length && customerProductLists?.data.length` (line 72):
\* "skip" when the value is falsy, "drain" when it is truthy, "raise" when
\* evaluating it throws (`{}.data` is undefined and `.length` is read on it).
EffectCondition(queue, snap) ==
    CASE Len(queue) = 0 -> "skip"
      [] snap.kind = "undefined" -> "skip"
      [] snap.kind = "cleared" -> "raise"
      [] Len(snap.data) = 0 -> "skip"
      [] OTHER -> "drain"

\* `customerProductLists?.data.find((list) => list.type === type)` (line 89)
\* as a sequence: empty when find returns undefined, else the first match.
getProductListPerType(snap, type) ==
    LET found == SelectSeq(snap.data, LAMBDA list : list.type = type)
    IN  IF found = << >> THEN << >> ELSE << Head(found) >>

\* `wishlist.customerProductListItems.find(({productId}) => productId ===
\* event.item.id)` (lines 33-35), as a sequence of at most one item.
FindProductListItem(wishlist, productId) ==
    LET found == SelectSeq(wishlist.customerProductListItems,
                           LAMBDA x : x.productId = productId)
    IN  IF found = << >> THEN << >> ELSE << Head(found) >>

\* Lines 30-32 throw a TypeError (caught at line 53) when the snapshot has
\* no `data` or no list of the wishlist type.
WishlistLookupThrows(snap) ==
    snap.kind # "lists" \/ getProductListPerType(snap, WISHLIST) = << >>

\* `eventQueue.shift()` (line 26): the event taken and the queue left.
ShiftLeavesRemove(queue) ==
    [event |-> Head(queue),
     rest |-> IF Head(queue).action = REMOVE THEN queue ELSE Tail(queue)]
Shift(queue) == [event |-> Head(queue), rest |-> Tail(queue)]

\* `eventQueue.push(event)` (line 214)
PushFront(queue, event) == << event >> \o queue
Push(queue, event) == Append(queue, event)

\* The quantity of the update request (line 130).
UpdatedQuantityOverwrites(productListItem, quantity) == quantity
UpdatedQuantity(productListItem, quantity) == productListItem.quantity + quantity

\* The argument of the success callback (lines 45 and 52).
SuccessArgumentNone(event) == 0
SuccessArgument(event) == event.item.quantity

\* The request bodies of addItemToWishlist (lines 104-114),
\* updateItemToWishlist (lines 124-139) and deleteCustomerProductListItem
\* (lines 341-350).
CreateItemRequestOfOne(productId, quantity, wishlistId) ==
    Request("createCustomerProductListItem", wishlistId, None, productId, 1)
CreateItemRequest(productId, quantity, wishlistId) ==
    Request("createCustomerProductListItem", wishlistId, None, productId, quantity)
UpdateItemRequest(productId, productListItem, quantity, wishlistId) ==
    Request("updateCustomerProductListItem", wishlistId, productListItem.id,
            productId, UpdatedQuantity(productListItem, quantity))
DeleteItemRequest(item, listId) ==
    Request("deleteCustomerProductListItem", listId, item.id, None, 0)
GetListsRequest == Request("getCustomerProductLists", None, None, None, 0)
\* `createCustomerProductList({body: {type}, ...})` (lines 169-176, 223-228)
CreateListRequest(type) ==
    [op |-> "createCustomerProductList", listId |-> None, itemId |-> None,
     productId |-> None, quantity |-> 0, type |-> type]

\* `response?.data?.length && response?.data?.some((list) => list.type ===
\* type)` (line 162), for a response that is not an error
HasAnyList(lists, type) == Len(lists) > 0
HasListOfType(lists, type) ==
    Len(lists) > 0 /\ \E k \in DOMAIN lists : lists[k].type = type

\* The optimistic edit of deleteCustomerProductListItem (lines 358-371),
\* computed from the snapshot the method closed over.
RemoveItemFromLists(snap, itemId, listId) ==
    [snap EXCEPT !.data = FilterOutItemOfList(snap.data, listId, itemId)]

\* An invocation suspended at an await.  cid > 0 is a direct call, cid = 0 a
\* drain, which holds the event it shifted.  pc names the await:
\*   "update", "create", "delete"  the mutation request of the event
\*   "updateFetch", "createFetch"  the re-fetch after it (lines 263, 286)
\*   "get", "deleteDirect"         a direct call's request
Invocation(cid, event, snap, pc, req) ==
    [cid |-> cid, ev |-> event, snap |-> snap, pc |-> pc, req |-> req]

\* A direct call of a store method that remembers its `type` argument.
StoreCall(cid, snap, pc, req, type) ==
    [cid |-> cid, ev |-> NoEvent, snap |-> snap, pc |-> pc, req |-> req,
     type |-> type]

LogRequest(log, eid, cid, req) == Append(log, [eid |-> eid, cid |-> cid, req |-> req])
LogResponse(log, i, ok) ==
    IF i.cid = 0
    THEN Append(log, [eid |-> i.ev.eid, pc |-> i.pc, ok |-> ok])
    ELSE log
LogCallback(log, eid, cb, arg) == Append(log, [eid |-> eid, cb |-> cb, arg |-> arg])

\* `event.onError?.()` (lines 54, 65)
CallOnError(log, event) ==
    IF event.onError THEN LogCallback(log, event.eid, "onError", 0) ELSE log

\* `event.onSuccess?.(...)` (lines 52, 62)
CallOnSuccessIfAny(log, event, arg) ==
    IF event.onSuccess THEN LogCallback(log, event.eid, "onSuccess", arg) ELSE log

\* The state a synchronous run of the drain works on.
DrainState(queue, loading, deq, reqs, cbs) ==
    [eventQueue |-> queue, isLoading |-> loading, dequeued |-> deq,
     reqLog |-> reqs, cbLog |-> cbs, inv |-> {}, ended |-> FALSE]

\* processEventQueue (lines 23-69) from the loop test up to the next await
\* or to the end of the loop.  `snap` is the customerProductLists of the
\* render whose effect started the drain.
RECURSIVE processEventQueue(_, _)
processEventQueue(snap, st) ==
    IF Len(st.eventQueue) = 0
    THEN [st EXCEPT !.ended = TRUE]
    ELSE
      LET event == Shift(st.eventQueue).event
          st1 == [st EXCEPT !.eventQueue = Shift(st.eventQueue).rest,
                            !.dequeued = Append(@, event.eid)]
      IN
      IF event.action = ADD
      THEN
        IF WishlistLookupThrows(snap)
        THEN \* catch (line 53), break, next iteration
             processEventQueue(snap, [st1 EXCEPT !.cbLog = CallOnError(@, event)])
        ELSE
          LET wishlist == Head(getProductListPerType(snap, WISHLIST))
              found == FindProductListItem(wishlist, event.item.id)
          IN
          IF found # << >>
          THEN
            LET req == UpdateItemRequest(event.item.id, Head(found),
                                         event.item.quantity, wishlist.id)
            IN  [st1 EXCEPT !.isLoading = TRUE,
                            !.reqLog = LogRequest(@, event.eid, 0, req),
                            !.inv = {Invocation(0, event, snap, "update", req)}]
          ELSE
            LET req == CreateItemRequest(event.item.id, event.item.quantity,
                                         wishlist.id)
            IN  [st1 EXCEPT !.isLoading = TRUE,
                            !.reqLog = LogRequest(@, event.eid, 0, req),
                            !.inv = {Invocation(0, event, snap, "create", req)}]
      ELSE \* eventActions.REMOVE (line 59)
        LET req == DeleteItemRequest(event.item, event.listId)
        IN  [st1 EXCEPT !.reqLog = LogRequest(@, event.eid, 0, req),
                        !.inv = {Invocation(0, event, snap, "delete", req)}]

\* After a catch block (lines 53-56, 64-66) the switch is left and the loop
\* test of line 24 is next.
AfterCatchReturns(snap, st) == [st EXCEPT !.ended = TRUE]
AfterCatch(snap, st) == processEventQueue(snap, st)

NoRequest == Request(None, None, None, None, 0)

\* The drain goes on (or starts) from the loop test; r is the outcome of
\* that synchronous run, `others` the invocations that stay suspended.
ContinueDrain(r, others) ==
    /\ eventQueue' = r.eventQueue
    /\ isLoading' = r.isLoading
    /\ dequeued' = r.dequeued
    /\ reqLog' = r.reqLog
    /\ cbLog' = r.cbLog
    /\ inflight' = others \cup r.inv

\* `setCustomerProductLists(value)`: the context state changes, the hook
\* renders again and the effect of line 71 is due.  React runs the effects
\* of a committed render before it renders again, so a new value is set
\* only once the effect of the previous one has run.
SetFiresOnLoadOnly(value) ==
    /\ ~effectPending
    /\ customerProductLists' = value
    /\ effectPending' = (loaded(value) /\ ~loaded(customerProductLists))
SetCustomerProductLists(value) ==
    /\ ~effectPending
    /\ customerProductLists' = value
    /\ effectPending' = TRUE

----------------------------------------------------------------------------
Init ==
    /\ server \in InitialServers
    /\ created = 0
    /\ customerProductLists = Undefined
    /\ isLoading = FALSE
    /\ eventQueue = << >>
    /\ effectPending = FALSE
    /\ effectRaised = FALSE
    /\ inflight = {}
    /\ enqueued = << >>
    /\ dequeued = << >>
    /\ reqLog = << >>
    /\ cbLog = << >>
    /\ resLog = << >>
    /\ calls = 0
    /\ errored = {}
    /\ raised = {}

\* addActionToEventQueue(event) (lines 213-215)
addActionToEventQueue(shape) ==
    /\ Len(enqueued) < MaxEvents
    /\ LET event == [eid |-> Len(enqueued) + 1] @@ shape
       IN  /\ eventQueue' = Push(eventQueue, event)
           /\ enqueued' = Append(enqueued, event)
    /\ UNCHANGED <<server, created, customerProductLists, isLoading,
                   effectPending, effectRaised, inflight, dequeued, reqLog,
                   cbLog, resLog, calls, errored, raised>>

\* The effect on [customerProductLists] (lines 71-75).
RunEffect ==
    /\ effectPending
    /\ effectPending' = FALSE
    /\ LET outcome == EffectCondition(eventQueue, customerProductLists)
       IN  CASE outcome = "drain" ->
                  LET r == processEventQueue(customerProductLists,
                               DrainState(eventQueue, isLoading, dequeued,
                                          reqLog, cbLog))
                  IN  /\ ContinueDrain(r, inflight)
                      /\ effectRaised' = effectRaised
             [] outcome = "raise" ->
                  /\ effectRaised' = TRUE
                  /\ UNCHANGED <<eventQueue, isLoading, dequeued, reqLog,
                                 cbLog, inflight>>
             [] OTHER ->
                  /\ UNCHANGED <<effectRaised, eventQueue, isLoading, dequeued,
                                 reqLog, cbLog, inflight>>
    /\ UNCHANGED <<server, created, customerProductLists, enqueued, resLog,
                   calls, errored, raised>>

\* The mutation request of a queued add is answered: createCustomerProductListItem
\* (lines 256-264) or updateCustomerProductListItem (lines 279-287) resumes,
\* and on an error the catch of line 53.
DrainMutationResponse(i, ok) ==
    /\ i \in inflight /\ i.cid = 0 /\ i.pc \in {"update", "create"}
    /\ resLog' = LogResponse(resLog, i, ok)
    /\ ok => RequestValid(server, i.req)
    /\ IF ok
       THEN /\ server' = ServerApply(server, i.req, created)
            /\ created' = CreatedAfter(i.req, created)
            /\ isLoading' = TRUE
            /\ reqLog' = LogRequest(reqLog, i.ev.eid, 0, GetListsRequest)
            /\ inflight' = (inflight \ {i}) \cup
                   {Invocation(0, i.ev, i.snap,
                               IF i.pc = "update" THEN "updateFetch" ELSE "createFetch",
                               GetListsRequest)}
            /\ UNCHANGED <<eventQueue, dequeued, cbLog>>
       ELSE LET r == AfterCatch(i.snap,
                         DrainState(eventQueue, FALSE, dequeued, reqLog,
                                    CallOnError(cbLog, i.ev)))
            IN  /\ ContinueDrain(r, inflight \ {i})
                /\ UNCHANGED <<server, created>>
    /\ UNCHANGED <<customerProductLists, effectPending, effectRaised, enqueued,
                   calls, errored, raised>>

\* The re-fetch of a queued add is answered: getCustomerProductLists
\* (lines 199-205) resumes, then lines 45 or 52, or the catch of line 53.
DrainFetchResponse(i, ok) ==
    /\ i \in inflight /\ i.cid = 0 /\ i.pc \in {"updateFetch", "createFetch"}
    /\ resLog' = LogResponse(resLog, i, ok)
    /\ IF ok
       THEN /\ SetCustomerProductLists(Response(server))
            /\ IF i.pc = "updateFetch" /\ ~i.ev.onSuccess
               THEN \* `event.onSuccess(...)` of line 45 throws a TypeError
                    LET r == AfterCatch(i.snap,
                                 DrainState(eventQueue, FALSE, dequeued, reqLog,
                                            CallOnError(cbLog, i.ev)))
                    IN  /\ ContinueDrain(r, inflight \ {i})
               ELSE \* `return event.onSuccess(...)`: the drain returns
                    /\ cbLog' = CallOnSuccessIfAny(cbLog, i.ev, SuccessArgument(i.ev))
                    /\ isLoading' = FALSE
                    /\ inflight' = inflight \ {i}
                    /\ UNCHANGED <<eventQueue, dequeued, reqLog>>
       ELSE LET r == AfterCatch(i.snap,
                         DrainState(eventQueue, FALSE, dequeued, reqLog,
                                    CallOnError(cbLog, i.ev)))
            IN  /\ ContinueDrain(r, inflight \ {i})
                /\ UNCHANGED <<customerProductLists, effectPending>>
    /\ UNCHANGED <<server, created, effectRaised, enqueued, calls, errored,
                   raised>>

\* The delete request of a queued remove is answered:
\* deleteCustomerProductListItem (lines 352-373) resumes, then lines 62-66.
DrainDeleteResponse(i, ok) ==
    /\ i \in inflight /\ i.cid = 0 /\ i.pc = "delete"
    /\ resLog' = LogResponse(resLog, i, ok)
    /\ ok => RequestValid(server, i.req)
    /\ IF ok /\ i.snap.kind = "lists"
       THEN /\ server' = ServerApply(server, i.req, created)
            /\ SetCustomerProductLists(
                   RemoveItemFromLists(i.snap, i.req.itemId, i.req.listId))
            /\ LET r == processEventQueue(i.snap,
                            DrainState(eventQueue, isLoading, dequeued, reqLog,
                                       CallOnSuccessIfAny(cbLog, i.ev, 0)))
               IN  /\ ContinueDrain(r, inflight \ {i})
       ELSE \* the request failed, or `customerProductLists.data` threw
            /\ server' = IF ok THEN ServerApply(server, i.req, created) ELSE server
            /\ LET r == AfterCatch(i.snap,
                            DrainState(eventQueue, isLoading, dequeued, reqLog,
                                       CallOnError(cbLog, i.ev)))
               IN  /\ ContinueDrain(r, inflight \ {i})
            /\ UNCHANGED <<customerProductLists, effectPending>>
    /\ UNCHANGED <<created, effectRaised, enqueued, calls, errored, raised>>

\* A caller calls getCustomerProductLists() (lines 190-197).
CallGetCustomerProductLists ==
    /\ calls < MaxCalls
    /\ calls' = calls + 1
    /\ isLoading' = TRUE
    /\ inflight' = inflight \cup
           {Invocation(calls + 1, NoEvent, customerProductLists, "get",
                       GetListsRequest)}
    /\ UNCHANGED <<server, created, customerProductLists, eventQueue,
                   effectPending, effectRaised, enqueued, dequeued, reqLog,
                   cbLog, resLog, errored, raised>>

\* Its request is answered (lines 199-205).
GetResponseWithoutErrorCheck(i, ok) ==
    /\ i \in inflight /\ i.cid > 0 /\ i.pc = "get"
    /\ resLog' = LogResponse(resLog, i, ok)
    /\ isLoading' = FALSE
    /\ errored' = IF ok THEN errored ELSE errored \cup {i.cid}
    /\ SetCustomerProductLists(IF ok THEN Response(server) ELSE Cleared)
    /\ inflight' = inflight \ {i}
    /\ UNCHANGED <<server, created, eventQueue, effectRaised, enqueued,
                   dequeued, reqLog, cbLog, calls, raised>>
GetResponse(i, ok) ==
    /\ i \in inflight /\ i.cid > 0 /\ i.pc = "get"
    /\ resLog' = LogResponse(resLog, i, ok)
    /\ isLoading' = FALSE
    /\ IF ok
       THEN /\ SetCustomerProductLists(Response(server))
            /\ UNCHANGED <<errored, raised>>
       ELSE /\ errored' = errored \cup {i.cid}
            /\ raised' = raised \cup {i.cid}
            /\ UNCHANGED <<customerProductLists, effectPending>>
    /\ inflight' = inflight \ {i}
    /\ UNCHANGED <<server, created, eventQueue, effectRaised, enqueued,
                   dequeued, reqLog, cbLog, calls>>

\* A caller calls deleteCustomerProductListItem(item, listId) (lines 338-350).
CallDeleteCustomerProductListItem(itemId, listId) ==
    /\ calls < MaxCalls
    /\ calls' = calls + 1
    /\ LET req == DeleteItemRequest([id |-> itemId], listId)
       IN  inflight' = inflight \cup
                  {Invocation(calls + 1, NoEvent, customerProductLists,
                              "deleteDirect", req)}
    /\ UNCHANGED <<server, created, customerProductLists, isLoading, eventQueue,
                   effectPending, effectRaised, enqueued, dequeued, reqLog,
                   cbLog, resLog, errored, raised>>

\* Its request is answered (lines 352-373).  With no `data` in the snapshot
\* the method closed over, line 360 throws after the backend has deleted.
DeleteResponse(i, ok) ==
    /\ i \in inflight /\ i.cid > 0 /\ i.pc = "deleteDirect"
    /\ resLog' = LogResponse(resLog, i, ok)
    /\ ok => RequestValid(server, i.req)
    /\ server' = IF ok THEN ServerApply(server, i.req, created) ELSE server
    /\ IF ok /\ i.snap.kind = "lists"
       THEN /\ SetCustomerProductLists(
                   RemoveItemFromLists(i.snap, i.req.itemId, i.req.listId))
            /\ UNCHANGED <<errored, raised>>
       ELSE /\ errored' = IF ok THEN errored ELSE errored \cup {i.cid}
            /\ raised' = raised \cup {i.cid}
            /\ UNCHANGED <<customerProductLists, effectPending>>
    /\ inflight' = inflight \ {i}
    /\ UNCHANGED <<created, isLoading, eventQueue, effectRaised, enqueued,
                   dequeued, reqLog, cbLog, calls>>

\* clearProductLists() (lines 92-95)
clearProductLists ==
    /\ calls < MaxCalls
    /\ calls' = calls + 1
    /\ SetCustomerProductLists(Cleared)
    /\ UNCHANGED <<server, created, isLoading, eventQueue, effectRaised,
                   inflight, enqueued, dequeued, reqLog, cbLog, resLog,
                   errored, raised>>

\* The arguments of the direct calls.
ListTypes == {WISHLIST, OTHERTYPE}
DirectItems == {[productId |-> "p3", quantity |-> 2]}
DirectUpdates == {[itemId |-> "i1", productId |-> "p1", quantity |-> 5]}
DetailIds == {"p1"}

\* What every direct call leaves alone when it starts.
StartsCall ==
    /\ calls < MaxStoreCalls
    /\ calls' = calls + 1
    /\ UNCHANGED <<server, created, customerProductLists, eventQueue,
                   effectPending, effectRaised, enqueued, dequeued, reqLog,
                   cbLog, resLog, errored, raised>>

\* A caller calls fetchOrCreateProductLists(type) (lines 147-155).
CallFetchOrCreateProductLists(type) ==
    /\ StartsCall
    /\ isLoading' = TRUE
    /\ inflight' = inflight \cup
           {StoreCall(calls + 1, customerProductLists, "focFetch",
                      GetListsRequest, type)}

\* Its first fetch is answered (lines 157-176).
FetchOrCreateFetchResponse(i, ok) ==
    /\ i \in inflight /\ i.cid > 0 /\ i.pc = "focFetch"
    /\ IF ~ok
       THEN /\ isLoading' = FALSE
            /\ errored' = errored \cup {i.cid}
            /\ raised' = raised \cup {i.cid}
            /\ inflight' = inflight \ {i}
            /\ UNCHANGED <<customerProductLists, effectPending>>
       ELSE IF HasListOfType(server, i.type)
       THEN /\ isLoading' = FALSE
            /\ SetCustomerProductLists(Response(server))
            /\ inflight' = inflight \ {i}
            /\ UNCHANGED <<errored, raised>>
       ELSE /\ isLoading' = TRUE
            /\ inflight' = (inflight \ {i}) \cup
                   {StoreCall(i.cid, i.snap, "focCreate",
                              CreateListRequest(i.type), i.type)}
            /\ UNCHANGED <<customerProductLists, effectPending, errored, raised>>
    /\ UNCHANGED <<server, created, eventQueue, effectRaised, enqueued,
                   dequeued, reqLog, cbLog, resLog, calls>>

\* Its create-list request is answered (lines 178-183).
FetchOrCreateCreateResponse(i, ok) ==
    /\ i \in inflight /\ i.cid > 0 /\ i.pc = "focCreate"
    /\ IF ok
       THEN /\ server' = ServerApply(server, i.req, created)
            /\ isLoading' = TRUE
            /\ inflight' = (inflight \ {i}) \cup
                   {StoreCall(i.cid, i.snap, "focRefetch", GetListsRequest,
                              i.type)}
            /\ UNCHANGED <<errored, raised>>
       ELSE /\ isLoading' = FALSE
            /\ errored' = errored \cup {i.cid}
            /\ raised' = raised \cup {i.cid}
            /\ inflight' = inflight \ {i}
            /\ UNCHANGED server
    /\ UNCHANGED <<created, customerProductLists, eventQueue, effectPending,
                   effectRaised, enqueued, dequeued, reqLog, cbLog, resLog,
                   calls>>

\* A caller calls createCustomerProductList({type}) (lines 221-228).
CallCreateCustomerProductList(type) ==
    /\ StartsCall
    /\ isLoading' = TRUE
    /\ inflight' = inflight \cup
           {StoreCall(calls + 1, customerProductLists, "createList",
                      CreateListRequest(type), type)}

\* Its request is answered (lines 230-236); line 230 sets isLoading to true.
CreateListResponse(i, ok) ==
    /\ i \in inflight /\ i.cid > 0 /\ i.pc = "createList"
    /\ isLoading' = TRUE
    /\ IF ok
       THEN /\ server' = ServerApply(server, i.req, created)
            /\ inflight' = (inflight \ {i}) \cup
                   {StoreCall(i.cid, i.snap, "createListFetch",
                              GetListsRequest, i.type)}
            /\ UNCHANGED <<errored, raised>>
       ELSE /\ errored' = errored \cup {i.cid}
            /\ raised' = raised \cup {i.cid}
            /\ inflight' = inflight \ {i}
            /\ UNCHANGED server
    /\ UNCHANGED <<created, customerProductLists, eventQueue, effectPending,
                   effectRaised, enqueued, dequeued, reqLog, cbLog, resLog,
                   calls>>

\* A caller calls createCustomerProductListItem(item, listId) (lines 245-254).
CallCreateCustomerProductListItem(item, listId) ==
    /\ StartsCall
    /\ isLoading' = TRUE
    /\ inflight' = inflight \cup
           {Invocation(calls + 1, NoEvent, customerProductLists,
                       "createItem",
                       Request("createCustomerProductListItem", listId, None,
                               item.productId, item.quantity))}

\* A caller calls updateCustomerProductListItem(item, listId, itemId)
\* (lines 267-277).
CallUpdateCustomerProductListItem(item, listId) ==
    /\ StartsCall
    /\ isLoading' = TRUE
    /\ inflight' = inflight \cup
           {Invocation(calls + 1, NoEvent, customerProductLists,
                       "updateItem",
                       Request("updateCustomerProductListItem", listId,
                               item.itemId, item.productId, item.quantity))}

\* The request of a direct create or update of an item is answered
\* (lines 256-263, 279-286).
ItemMutationResponse(i, ok) ==
    /\ i \in inflight /\ i.cid > 0 /\ i.pc \in {"createItem", "updateItem"}
    /\ ok => RequestValid(server, i.req)
    /\ IF ok
       THEN /\ server' = ServerApply(server, i.req, created)
            /\ created' = CreatedAfter(i.req, created)
            /\ isLoading' = TRUE
            /\ inflight' = (inflight \ {i}) \cup
                   {Invocation(i.cid, NoEvent, i.snap,
                               IF i.pc = "createItem" THEN "createItemFetch"
                                                      ELSE "updateItemFetch",
                               GetListsRequest)}
            /\ UNCHANGED <<errored, raised>>
       ELSE /\ isLoading' = FALSE
            /\ errored' = errored \cup {i.cid}
            /\ raised' = raised \cup {i.cid}
            /\ inflight' = inflight \ {i}
            /\ UNCHANGED <<server, created>>
    /\ UNCHANGED <<customerProductLists, eventQueue, effectPending,
                   effectRaised, enqueued, dequeued, reqLog, cbLog, resLog,
                   calls>>

\* `{...list, _productItemsDetail: {...list._productItemsDetail,
\* ...itemDetail}}` for the list of the id (lines 317-328); the detail of a
\* product is kept as the product's id.
DetailOf(list) ==
    IF "_productItemsDetail" \in DOMAIN list
    THEN list._productItemsDetail ELSE {}
WithItemDetail(snap, listId, itemDetail) ==
    [snap EXCEPT !.data =
        [k \in DOMAIN snap.data |->
            IF snap.data[k].id = listId
            THEN [f \in DOMAIN snap.data[k] \cup {"_productItemsDetail"} |->
                     IF f = "_productItemsDetail"
                     THEN DetailOf(snap.data[k]) \cup itemDetail
                     ELSE snap.data[k][f]]
            ELSE snap.data[k]]]

\* A caller calls getProductsInList(ids, listId) (lines 296-305).
CallGetProductsInList(ids, listId) ==
    /\ StartsCall
    /\ isLoading' = isLoading
    /\ inflight' = inflight \cup
           {Invocation(calls + 1, NoEvent, customerProductLists, "products",
                       Request("getProducts", listId, None, ids, 0))}

\* Its request is answered (lines 307-330).  Line 319 throws when the
\* snapshot the method closed over has no `data`.
GetProductsResponse(i, ok) ==
    /\ i \in inflight /\ i.cid > 0 /\ i.pc = "products"
    /\ IF ok /\ i.snap.kind = "lists"
       THEN /\ SetCustomerProductLists(
                   WithItemDetail(i.snap, i.req.listId, {i.req.productId}))
            /\ UNCHANGED <<errored, raised>>
       ELSE /\ errored' = IF ok THEN errored ELSE errored \cup {i.cid}
            /\ raised' = raised \cup {i.cid}
            /\ UNCHANGED <<customerProductLists, effectPending>>
    /\ inflight' = inflight \ {i}
    /\ UNCHANGED <<server, created, isLoading, eventQueue, effectRaised,
                   enqueued, dequeued, reqLog, cbLog, resLog, calls>>

\* The fetch that follows a direct mutation is answered:
\* getCustomerProductLists (lines 199-205) resumes, then its caller returns
\* (lines 183, 236-237, 263-264, 286-287).
RefetchPcs == {"focRefetch", "createListFetch", "createItemFetch",
               "updateItemFetch"}
RefetchResponseKeepsLoadedLists(i, ok) ==
    /\ i \in inflight /\ i.cid > 0 /\ i.pc \in RefetchPcs
    /\ isLoading' = FALSE
    /\ IF ok
       THEN /\ SetCustomerProductLists(
                   IF loaded(customerProductLists)
                   THEN customerProductLists ELSE Response(server))
            /\ UNCHANGED <<errored, raised>>
       ELSE /\ errored' = errored \cup {i.cid}
            /\ raised' = raised \cup {i.cid}
            /\ UNCHANGED <<customerProductLists, effectPending>>
    /\ inflight' = inflight \ {i}
    /\ UNCHANGED <<server, created, eventQueue, effectRaised, enqueued,
                   dequeued, reqLog, cbLog, resLog, calls>>
RefetchResponse(i, ok) ==
    /\ i \in inflight /\ i.cid > 0 /\ i.pc \in RefetchPcs
    /\ isLoading' = FALSE
    /\ IF ok
       THEN /\ SetCustomerProductLists(Response(server))
            /\ UNCHANGED <<errored, raised>>
       ELSE /\ errored' = errored \cup {i.cid}
            /\ raised' = raised \cup {i.cid}
            /\ UNCHANGED <<customerProductLists, effectPending>>
    /\ inflight' = inflight \ {i}
    /\ UNCHANGED <<server, created, eventQueue, effectRaised, enqueued,
                   dequeued, reqLog, cbLog, resLog, calls>>

Next ==
    \/ \E shape \in EventShapes : addActionToEventQueue(shape)
    \/ RunEffect
    \/ \E i \in inflight, ok \in BOOLEAN : DrainMutationResponse(i, ok)
    \/ \E i \in inflight, ok \in BOOLEAN : DrainFetchResponse(i, ok)
    \/ \E i \in inflight, ok \in BOOLEAN : DrainDeleteResponse(i, ok)
    \/ CallGetCustomerProductLists
    \/ \E i \in inflight, ok \in BOOLEAN : GetResponse(i, ok)
    \/ \E itemId \in RemoveItems, listId \in RemoveLists :
           CallDeleteCustomerProductListItem(itemId, listId)
    \/ \E i \in inflight, ok \in BOOLEAN : DeleteResponse(i, ok)
    \/ clearProductLists

Spec == Init /\ [][Next]_vars

\* Every request is answered, successfully or with an error, and React runs
\* the effect of every committed render.
AnyResponse ==
    \E i \in inflight, ok \in BOOLEAN :
        \/ DrainMutationResponse(i, ok)
        \/ DrainFetchResponse(i, ok)
        \/ DrainDeleteResponse(i, ok)
        \/ GetResponse(i, ok)
        \/ DeleteResponse(i, ok)
\* The callers' protocol (lines 8-9 and 208-211): an action is pushed on
\* the queue only while the product lists have not loaded.
EarlyNext ==
    \/ \E shape \in EventShapes :
           ~loaded(customerProductLists) /\ addActionToEventQueue(shape)
    \/ RunEffect
    \/ \E i \in inflight, ok \in BOOLEAN : DrainMutationResponse(i, ok)
    \/ \E i \in inflight, ok \in BOOLEAN : DrainFetchResponse(i, ok)
    \/ \E i \in inflight, ok \in BOOLEAN : DrainDeleteResponse(i, ok)
    \/ CallGetCustomerProductLists
    \/ \E i \in inflight, ok \in BOOLEAN : GetResponse(i, ok)
    \/ \E itemId \in RemoveItems, listId \in RemoveLists :
           CallDeleteCustomerProductListItem(itemId, listId)
    \/ \E i \in inflight, ok \in BOOLEAN : DeleteResponse(i, ok)
    \/ clearProductLists
EarlySpec == Init /\ [][EarlyNext]_vars
FairSpec == EarlySpec /\ WF_vars(RunEffect) /\ WF_vars(AnyResponse)

\* The store methods called directly, by callers that queue no action: the
\* effect runs on every new customerProductLists and finds the queue empty.
StoreNext ==
    \/ RunEffect
    \/ CallGetCustomerProductLists
    \/ \E i \in inflight, ok \in BOOLEAN : GetResponse(i, ok)
    \/ \E itemId \in RemoveItems, listId \in RemoveLists :
           CallDeleteCustomerProductListItem(itemId, listId)
    \/ \E i \in inflight, ok \in BOOLEAN : DeleteResponse(i, ok)
    \/ clearProductLists
    \/ \E type \in ListTypes : CallFetchOrCreateProductLists(type)
    \/ \E type \in ListTypes : CallCreateCustomerProductList(type)
    \/ \E item \in DirectItems, listId \in RemoveLists :
           CallCreateCustomerProductListItem(item, listId)
    \/ \E item \in DirectUpdates, listId \in RemoveLists :
           CallUpdateCustomerProductListItem(item, listId)
    \/ \E i \in inflight, ok \in BOOLEAN : FetchOrCreateFetchResponse(i, ok)
    \/ \E i \in inflight, ok \in BOOLEAN : FetchOrCreateCreateResponse(i, ok)
    \/ \E i \in inflight, ok \in BOOLEAN : CreateListResponse(i, ok)
    \/ \E i \in inflight, ok \in BOOLEAN : ItemMutationResponse(i, ok)
    \/ \E i \in inflight, ok \in BOOLEAN : RefetchResponse(i, ok)
    \/ \E ids \in DetailIds, listId \in RemoveLists :
           CallGetProductsInList(ids, listId)
    \/ \E i \in inflight, ok \in BOOLEAN : GetProductsResponse(i, ok)
StoreSpec == Init /\ [][StoreNext]_vars

----------------------------------------------------------------------------
\* Helpers of the properties.
InQueue(e) == \E k \in DOMAIN eventQueue : eventQueue[k].eid = e
Drains == {i \in inflight : i.cid = 0}
IsMutation(r) == r.req.op # "getCustomerProductLists"
\* The requests of queued actions, without the re-fetches, in start order.
MutationRequests == SelectSeq(reqLog, IsMutation)
MutationRequestsOf(e) == SelectSeq(reqLog, LAMBDA r : r.eid = e /\ IsMutation(r))
CallbacksOf(log, e) == SelectSeq(log, LAMBDA c : c.eid = e)
Range(seq) == {seq[k] : k \in DOMAIN seq}

----------------------------------------------------------------------------
\* C1 (as stated): the k-th queued action whose request is started is the
\* k-th action that was pushed.
C1_KthStartedIsKthEnqueued ==
    \A k \in DOMAIN MutationRequests :
        MutationRequests[k].eid = enqueued[k].eid

\* C1 (amended): the k-th action shifted off the queue is the k-th action
\* pushed, over all drain invocations; the requests of queued actions are
\* started in push order; every request belongs to a shifted action and
\* every shifted remove has started its request.  An add can be shifted
\* without a request (no wishlist in the snapshot).
C1_DispatchedInEnqueueOrder ==
    /\ Len(dequeued) <= Len(enqueued)
    /\ \A k \in DOMAIN dequeued : dequeued[k] = enqueued[k].eid
    /\ \A j, k \in DOMAIN MutationRequests :
           j < k => MutationRequests[j].eid < MutationRequests[k].eid
    /\ \A k \in DOMAIN MutationRequests :
           MutationRequests[k].eid \in Range(dequeued)
    /\ \A k \in DOMAIN dequeued :
           enqueued[k].action = REMOVE => MutationRequestsOf(dequeued[k]) # << >>

\* Two actions were pushed, both were shifted and both started a request.
C1_Witness ==
    /\ Len(dequeued) = 2
    /\ Len(MutationRequests) = 2

\* C2: at most one request of a queued action is in flight at any time.
C2_QueuedRequestsNeverOverlap == Cardinality(Drains) <= 1

\* C3: an action is shifted at most once and is then off the queue, its
\* request is started at most once, and no two drain invocations hold the
\* same action.
C3_DispatchedAtMostOnce ==
    /\ \A j, k \in DOMAIN dequeued : j # k => dequeued[j] # dequeued[k]
    /\ \A k \in DOMAIN dequeued : ~InQueue(dequeued[k])
    /\ \A e \in 1..Len(enqueued) :
           /\ Len(MutationRequestsOf(e)) <= 1
           /\ InQueue(e) \/ e \in Range(dequeued)
    /\ \A i, j \in Drains : i.ev.eid = j.ev.eid => i = j
    /\ \A i \in Drains : i.ev.eid \in Range(dequeued)

\* Two drain invocations overlap, each holding an action it shifted.
C3_Witness ==
    /\ Cardinality(Drains) = 2
    /\ Len(dequeued) = 2

\* C4: once the lists are loaded, every action on the queue (pushed before
\* the lists were loaded) is eventually shifted off it, so the queue
\* eventually empties.
C4_QueuedActionsEventuallyDequeued ==
    \A e \in 1..MaxEvents :
        (InQueue(e) /\ loaded(customerProductLists)) ~> ~InQueue(e)

\* The only call is the fetch that loads the lists; the first action is an
\* add that succeeded, after which its drain invocation returned, and the
\* second action was shifted all the same.
C4_Witness ==
    /\ calls = 1
    /\ eventQueue = << >>
    /\ Len(dequeued) = 2
    /\ enqueued[1].action = ADD
    /\ \E k \in DOMAIN cbLog : cbLog[k].eid = 1 /\ cbLog[k].cb = "onSuccess"

\* C5: when a request of a queued action fails, the step that handles the
\* failure invokes the action's error callback exactly if it has one and no
\* other callback of it, and the drain goes on: if the queue is not empty
\* its head is shifted in the same run, and the invocation ends only on an
\* empty queue.  Every action still queued then is eventually shifted.
C5_FailureStep ==
    (Len(resLog') = Len(resLog) + 1 /\ ~resLog'[Len(resLog')].ok) =>
        LET e == resLog'[Len(resLog')].eid
        IN  /\ CallbacksOf(cbLog', e) =
                   CallbacksOf(cbLog, e) \o
                   (IF enqueued[e].onError
                    THEN << [eid |-> e, cb |-> "onError", arg |-> 0] >>
                    ELSE << >>)
            /\ eventQueue # << >> =>
                   /\ Len(dequeued') > Len(dequeued)
                   /\ dequeued'[Len(dequeued) + 1] = Head(eventQueue).eid
            /\ (\A j \in inflight' \ inflight : j.cid # 0) => eventQueue' = << >>
C5_FailedActionDoesNotStopTheDrain ==
    /\ [][C5_FailureStep]_vars
    /\ \A e \in 1..MaxEvents :
           (InQueue(e) /\ resLog # << >> /\ ~resLog[Len(resLog)].ok /\ Drains # {})
               ~> ~InQueue(e)

\* The request of the first action failed, its error callback was invoked,
\* and the request of the second action was answered after that.
C5_Witness ==
    \E j, k \in DOMAIN resLog :
        /\ j < k
        /\ resLog[j].eid = 1 /\ ~resLog[j].ok
        /\ resLog[k].eid = 2
        /\ CallbacksOf(cbLog, 1) = << [eid |-> 1, cb |-> "onError", arg |-> 0] >>

\* C6: when a drain invocation finishes, the queue is empty.
DrainFinished ==
    /\ \E i \in Drains : i \notin inflight'
    /\ \A j \in inflight' \ inflight : j.cid # 0
C6_DrainEndsOnEmptyQueue == [][DrainFinished => eventQueue' = << >>]_vars

\* The item the drain invocation i found for its event's product in the
\* wishlist of its snapshot (lines 30-35), as a sequence of at most one.
WishlistOf(i) == Head(getProductListPerType(i.snap, WISHLIST))
SnapshotItemFor(i) ==
    IF WishlistLookupThrows(i.snap)
    THEN << >>
    ELSE FindProductListItem(WishlistOf(i), i.ev.item.id)
Succeeded(e, pc) ==
    \E k \in DOMAIN resLog : resLog[k] = [eid |-> e, pc |-> pc, ok |-> TRUE]
PathOf(e) ==
    IF MutationRequestsOf(e) = << >> THEN None ELSE MutationRequestsOf(e)[1].req.op

C8_SuccessCallbackGetsResultingQuantity ==
    \A e \in 1..Len(enqueued) :
        (Succeeded(e, "updateFetch") /\ enqueued[e].onSuccess) =>
            CallbacksOf(cbLog, e) =
                << [eid |-> e, cb |-> "onSuccess",
                    arg |-> MutationRequestsOf(e)[1].req.quantity] >>

\* C8 (amended): it has been invoked, once, with the requested quantity.
C8_SuccessCallbackGetsRequestedQuantity ==
    \A e \in 1..Len(enqueued) :
        (Succeeded(e, "updateFetch") /\ enqueued[e].onSuccess) =>
            CallbacksOf(cbLog, e) =
                << [eid |-> e, cb |-> "onSuccess",
                    arg |-> enqueued[e].item.quantity] >>

\* An add of 2 succeeded by an update to quantity 5 and has a success callback.
C8_Witness ==
    \E e \in 1..Len(enqueued) :
        /\ Succeeded(e, "updateFetch") /\ enqueued[e].onSuccess
        /\ enqueued[e].item.quantity = 2
        /\ MutationRequestsOf(e)[1].req.quantity = 5

DeleteSucceeded(i) ==
    /\ i.req.op = "deleteCustomerProductListItem"
    /\ i \notin inflight'
    /\ i.snap.kind = "lists"
    /\ server' = ServerApply(server, i.req, created)
    /\ server' # server
C10_DeleteStep ==
    \A i \in inflight :
        (DeleteSucceeded(i) /\ customerProductLists.kind = "lists") =>
            /\ customerProductLists' =
                   RemoveItemFromLists(customerProductLists, i.req.itemId,
                                       i.req.listId)
            /\ \A j \in inflight' \ inflight : j.req.op # "getCustomerProductLists"
C10_DeleteFiltersPreviousSnapshot == [][C10_DeleteStep]_vars

----------------------------------------------------------------------------
\* C11: when a request of a store method called directly is answered with an
\* error-shaped response, the call throws to its caller; the step that
\* handles the answer ends the call, starts no request (no retry, no
\* fetch), and leaves customerProductLists and the backend as they were.
C11_ErrorStep ==
    \A c \in errored' \ errored :
        /\ c \in raised'
        /\ \A j \in inflight' : j.cid # c
        /\ inflight' \subseteq inflight
        /\ reqLog' = reqLog
        /\ customerProductLists' = customerProductLists
        /\ server' = server
C11_DirectCallRaisesOnError ==
    /\ [](errored \subseteq raised)
    /\ [][C11_ErrorStep]_vars
\* A call has failed after another call has loaded the lists.
C11_Witness ==
    /\ errored # {} /\ errored \subseteq raised
    /\ loaded(customerProductLists)

----------------------------------------------------------------------------
\* C12: an action is shifted off the queue only in a state where the current
\* customerProductLists has at least one list, in every step of a drain:
\* here in the weakest reading, the snapshot has a list right before or
\* right after the step.
C12_DequeueStep ==
    dequeued' # dequeued =>
        loaded(customerProductLists) \/ loaded(customerProductLists')
C12_DequeuedOnlyWhileLoaded == [][C12_DequeueStep]_vars

----------------------------------------------------------------------------
\* The direct calls whose suspended invocation is resumed by this step with
\* an answer that is not an error.
AnsweredOk == {i \in inflight \ inflight' : i.cid > 0 /\ i.cid \notin errored'}
StillRunning(c) == \E j \in inflight' : j.cid = c
TypesOf(lists) == {lists[k].type : k \in DOMAIN lists}

\* C13: fetchOrCreateProductLists(type) fetches all lists first; it issues a
\* create-list request if and only if the fetched lists hold no list of the
\* type, then re-fetches and sets the snapshot to the re-fetched lists;
\* otherwise it issues no create and sets the snapshot to the first fetch's
\* response.  When the call returns the snapshot holds a list of the type.
C13_FetchOrCreateStep ==
    \A i \in AnsweredOk :
        /\ i.pc = "focFetch" =>
              /\ i.req = GetListsRequest
              /\ (\E j \in inflight' :
                       /\ j.cid = i.cid /\ j.pc = "focCreate"
                       /\ j.req = CreateListRequest(i.type))
                    <=> i.type \notin TypesOf(server)
              /\ i.type \in TypesOf(server) =>
                    /\ ~StillRunning(i.cid)
                    /\ customerProductLists' = Response(server)
              /\ server' = server
        /\ i.pc = "focCreate" =>
              /\ \E j \in inflight' :
                     /\ j.cid = i.cid /\ j.pc = "focRefetch"
                     /\ j.req = GetListsRequest
              /\ customerProductLists' = customerProductLists
        /\ i.pc = "focRefetch" =>
              /\ ~StillRunning(i.cid)
              /\ customerProductLists' = Response(server)
        /\ (i.pc \in {"focFetch", "focCreate", "focRefetch"}
               /\ ~StillRunning(i.cid)) =>
              i.type \in TypesOf(customerProductLists'.data)
C13_FetchOrCreate == [][C13_FetchOrCreateStep]_vars
\* The call has created the list it did not find and is re-fetching.
C13_Witness ==
    \E i \in inflight :
        /\ i.pc = "focRefetch"
        /\ i.type \in TypesOf(server)
        /\ i.type \notin TypesOf(customerProductLists.data)

----------------------------------------------------------------------------
\* C14: in every reachable state, reading `loaded` raises no error and gives
\* true if and only if customerProductLists has at least one list; it gives
\* false when customerProductLists is undefined, is the cleared value, or
\* has an empty list collection.
C14_LoadedIffSnapshotHasAList ==
    /\ LoadedGetter(customerProductLists) \in {"true", "false"}
    /\ LoadedGetter(customerProductLists) = "true" <=>
           (customerProductLists.kind = "lists"
               /\ customerProductLists.data # << >>)
    /\ (customerProductLists \in {Undefined, Cleared, Response(<< >>)}) =>
           LoadedGetter(customerProductLists) = "false"
\* The lists were loaded and then cleared.
C14_Witness ==
    /\ customerProductLists = Cleared
    /\ dequeued # << >>

----------------------------------------------------------------------------
MutationPcs == {"createList", "createItem", "updateItem"}
FetchPcOf(pc) ==
    CASE pc = "createList" -> "createListFetch"
      [] pc = "createItem" -> "createItemFetch"
      [] pc = "updateItem" -> "updateItemFetch"
\* The invocations of call c that are suspended after the step.
After(c) == {j \in inflight' : j.cid = c}

\* C16: createCustomerProductList, createCustomerProductListItem and
\* updateCustomerProductListItem issue the mutation request first; exactly
\* one fetch of all lists follows it, and only if it succeeded; the call
\* returns only when that fetch has been answered; the snapshot is then
\* exactly the fetch's response, with nothing of the old snapshot in it.
C16_TwoStepStep ==
    /\ \A j \in inflight' \ inflight :
          \* a call starts with its mutation request
          j.cid = calls' /\ calls' # calls => j.pc \notin RefetchPcs
    /\ \A i \in inflight \ inflight' :
          /\ i.pc \in MutationPcs =>
                /\ i.req.op # "getCustomerProductLists"
                /\ customerProductLists' = customerProductLists
                /\ IF i.cid \in errored'
                   THEN After(i.cid) = {} /\ i.cid \in raised'
                   ELSE /\ Cardinality(After(i.cid)) = 1
                        /\ \A j \in After(i.cid) :
                               /\ j.pc = FetchPcOf(i.pc)
                               /\ j.req = GetListsRequest
          /\ i.pc \in {FetchPcOf(pc) : pc \in MutationPcs} =>
                /\ After(i.cid) = {}
                /\ i.cid \notin errored' =>
                      /\ customerProductLists' = Response(server)
                      /\ i.cid \notin raised'
C16_MutateThenFetch == [][C16_TwoStepStep]_vars
\* The mutation of a two-step call has succeeded and its fetch is awaited
\* while the snapshot holds a cached product detail, which the backend's
\* response does not carry.
C16_Witness ==
    /\ \E i \in inflight : i.pc \in {FetchPcOf(pc) : pc \in MutationPcs}
    /\ customerProductLists.kind = "lists"
    /\ \E k \in DOMAIN customerProductLists.data :
           DetailOf(customerProductLists.data[k]) # {}
    /\ ~effectPending

----------------------------------------------------------------------------
ItemIdsIn(snap) ==
    UNION {{snap.data[k].customerProductListItems[j].id :
               j \in DOMAIN snap.data[k].customerProductListItems} :
           k \in DOMAIN snap.data}

\* C17: once the queue has drained removes of distinct items and all of
\* them succeeded, the local snapshot holds none of the removed items.
C17_RemovedItemsStayRemoved ==
    (/\ Len(enqueued) >= 2
     /\ \A k \in DOMAIN enqueued :
            /\ enqueued[k].action = REMOVE
            /\ Succeeded(k, "delete")
     /\ \A k, l \in DOMAIN enqueued :
            k # l => enqueued[k].item.id # enqueued[l].item.id
     /\ customerProductLists.kind = "lists")
    => \A k \in DOMAIN enqueued :
           enqueued[k].item.id \notin ItemIdsIn(customerProductLists)

----------------------------------------------------------------------------
RECURSIVE SumOfQuantities(_)
SumOfQuantities(events) ==
    IF events = << >> THEN 0
    ELSE Head(events).item.quantity + SumOfQuantities(Tail(events))
\* The items a list collection holds for product p in its wishlist.
WishlistItemsFor(lists, p) ==
    LET wishlists == SelectSeq(lists, LAMBDA list : list.type = WISHLIST)
    IN  IF wishlists = << >> THEN << >>
        ELSE SelectSeq(Head(wishlists).customerProductListItems,
                       LAMBDA x : x.productId = p)
QuantityBefore(p) ==
    IF WishlistItemsFor(ServerWithWishlist, p) = << >> THEN 0
    ELSE WishlistItemsFor(ServerWithWishlist, p)[1].quantity
AddSucceeded(e) ==
    \/ Succeeded(e, "update") /\ Succeeded(e, "updateFetch")
    \/ Succeeded(e, "create") /\ Succeeded(e, "createFetch")

\* C18: once the queue has drained several adds of one product and all of
\* them succeeded, the backend's wishlist holds exactly one item for the
\* product, with the quantity it had before plus the sum of the requested
\* quantities (no direct call having deleted the item meanwhile).
C18_AddsOfOneProductAccumulate ==
    \A p \in AddProducts :
        (/\ Len(enqueued) >= 2
         /\ \A k \in DOMAIN enqueued :
                /\ enqueued[k].action = ADD
                /\ enqueued[k].item.id = p
                /\ AddSucceeded(k)
         /\ \A k \in DOMAIN WishlistItemsFor(ServerWithWishlist, p) :
                HasItem(server, "l1", WishlistItemsFor(ServerWithWishlist, p)[k].id))
        => /\ Len(WishlistItemsFor(server, p)) = 1
           /\ WishlistItemsFor(server, p)[1].quantity =
                  QuantityBefore(p) + SumOfQuantities(enqueued)

----------------------------------------------------------------------------
\* C19: for each action that was dispatched (a request was started for it)
\* at most one of its callbacks is invoked, and its error callback is
\* invoked only if its request or its re-fetch failed: an action whose
\* requests all succeeded reports no error, with or without a success
\* callback, in the create, update and remove paths.
C19_CallbacksReportTheOutcome ==
    \A e \in DOMAIN enqueued :
        MutationRequestsOf(e) # << >> =>
            /\ Len(CallbacksOf(cbLog, e)) <= 1
            /\ (\E k \in DOMAIN cbLog :
                    cbLog[k].eid = e /\ cbLog[k].cb = "onError")
                 => \E k \in DOMAIN resLog :
                        resLog[k].eid = e /\ ~resLog[k].ok

----------------------------------------------------------------------------
\* C20: evaluating the condition of the drain trigger never raises; when it
\* is evaluated on a snapshot without a list (undefined, cleared, or with
\* an empty list collection) no drain starts and the queue is unchanged.
C20_EffectStep ==
    (effectPending /\ ~effectPending' /\ ~loaded(customerProductLists)) =>
        /\ eventQueue' = eventQueue
        /\ dequeued' = dequeued
        /\ inflight' = inflight
C20_TriggerNeverRaises ==
    /\ [](~effectRaised)
    /\ [][C20_EffectStep]_vars

----------------------------------------------------------------------------
\* C21: showLoader is false in every state where no request of the store is
\* in flight: every operation that sets the flag resets it once its request
\* has been answered, on success and on error.
C21_LoaderOffWhenIdle == inflight = {} => showLoader(isLoading) = FALSE

====
